---- MODULE Spec2Model ----
(***************************************************************************)
(* Model of the SPATEN streaming container decoder (src/src/lib.rs):       *)
(* read_file_header, read_block, read_body, Value::from_bytes and the      *)
(* FeatureIterator built on them.                                          *)
(*                                                                         *)
(* The input is an in-memory byte stream (std::io::Cursor, as in the       *)
(* tests): a read of n bytes delivers min(n, remaining) bytes and leaves   *)
(* the rest of the caller's buffer untouched.  A reader may additionally   *)
(* report an I/O error for the read call that starts at position errAt.    *)
(* A panic (expect, unwrap, assert_eq!, index out of bounds) ends the run: *)
(* pc = "failed".                                                          *)
(***************************************************************************)
EXTENDS Integers, Sequences, FiniteSets, TLC

VARIABLES stream, errAt, pos, pc, queue, yielded, block, ret

vars == <<stream, errAt, pos, pc, queue, yielded, block, ret>>

(***************************************************************************)
(* Bounds of the model.                                                    *)
(***************************************************************************)
MaxBlocks == 2

NoErr == 0 - 1

(***************************************************************************)
(* Bytes and small helpers.                                                *)
(***************************************************************************)
Min(a, b) == IF a <= b THEN a ELSE b

Zeros(n) == [i \in 1..n |-> 0]

SubBytes(s, from, n) == [i \in 1..n |-> s[from + i]]

RECURSIVE Concat(_)
Concat(ss) == IF ss = <<>> THEN <<>> ELSE Head(ss) \o Concat(Tail(ss))

\* b"SPAT"
MAGIC == <<83, 80, 65, 84>>

\* b"\0\0\0\0"
VERSION == <<0, 0, 0, 0>>

(***************************************************************************)
(* r.read(&mut buf) on the stream at position p: an I/O error when the     *)
(* reader fails there, otherwise the first min(len, remaining) bytes of    *)
(* buf are overwritten and the position advances by that many.             *)
(***************************************************************************)
Read(p, buf) ==
    IF p = errAt
    THEN [err |-> TRUE, buf |-> buf, pos |-> p]
    ELSE LET k == Min(Len(buf), Len(stream) - p)
         IN  [err |-> FALSE,
              buf |-> [i \in 1..Len(buf) |-> IF i <= k THEN stream[p + i] ELSE buf[i]],
              pos |-> p + k]

\* u32::from_le_bytes
U32FromLeBytes(b) == b[1] + 256 * b[2] + 65536 * b[3] + 16777216 * b[4]

(***************************************************************************)
(* read_file_header: the same 4-byte buffer is used for both reads.        *)
(* Result: ok (returned normally) and the stream position reached.         *)
(***************************************************************************)
\* mutant: the version is read into a fresh zeroed buffer
read_file_header_fresh(p) ==
    LET r1 == Read(p, Zeros(4))
    IN  IF r1.err \/ r1.buf # MAGIC
        THEN [ok |-> FALSE, pos |-> r1.pos]
        ELSE LET r2 == Read(r1.pos, Zeros(4))
             IN  IF r2.err \/ r2.buf # VERSION
                 THEN [ok |-> FALSE, pos |-> r2.pos]
                 ELSE [ok |-> TRUE, pos |-> r2.pos]

read_file_header(p) ==
    LET r1 == Read(p, Zeros(4))
    IN  IF r1.err \/ r1.buf # MAGIC
        THEN [ok |-> FALSE, pos |-> r1.pos]
        ELSE LET r2 == Read(r1.pos, r1.buf)
             IN  IF r2.err \/ r2.buf # VERSION
                 THEN [ok |-> FALSE, pos |-> r2.pos]
                 ELSE [ok |-> TRUE, pos |-> r2.pos]

(***************************************************************************)
(* read_block.  kind is "Err" (Err returned), "None" (Ok(None)), "Some"    *)
(* (Ok(Some(body))) or "panic" (expect / assert_eq! failed).               *)
(***************************************************************************)
\* mutant: the sentinel is tested after the whole 8-byte header was read
read_block_header_first(p) ==
    LET rl == Read(p, Zeros(4))
        bodylen == U32FromLeBytes(rl.buf)
        rf == Read(rl.pos, Zeros(2))
        rc == Read(rf.pos, Zeros(1))
        rm == Read(rc.pos, Zeros(1))
        rb == Read(rm.pos, Zeros(bodylen))
    IN  IF rl.err THEN [kind |-> "Err", body |-> <<>>, pos |-> rl.pos]
        ELSE IF rf.err \/ rf.buf # <<0, 0>> THEN [kind |-> "panic", body |-> <<>>, pos |-> rf.pos]
        ELSE IF rc.err \/ rc.buf # <<0>> THEN [kind |-> "panic", body |-> <<>>, pos |-> rc.pos]
        ELSE IF rm.err \/ rm.buf # <<0>> THEN [kind |-> "panic", body |-> <<>>, pos |-> rm.pos]
        ELSE IF bodylen = 0 THEN [kind |-> "None", body |-> <<>>, pos |-> rm.pos]
        ELSE IF rb.err THEN [kind |-> "panic", body |-> <<>>, pos |-> rb.pos]
        ELSE [kind |-> "Some", body |-> rb.buf, pos |-> rb.pos]

\* mutant: the message-type byte is read but not checked
read_block_no_messagetype(p) ==
    LET rl == Read(p, Zeros(4))
        bodylen == U32FromLeBytes(rl.buf)
        rf == Read(rl.pos, Zeros(2))
        rc == Read(rf.pos, Zeros(1))
        rm == Read(rc.pos, Zeros(1))
        rb == Read(rm.pos, Zeros(bodylen))
    IN  IF rl.err THEN [kind |-> "Err", body |-> <<>>, pos |-> rl.pos]
        ELSE IF bodylen = 0 THEN [kind |-> "None", body |-> <<>>, pos |-> rl.pos]
        ELSE IF rf.err \/ rf.buf # <<0, 0>> THEN [kind |-> "panic", body |-> <<>>, pos |-> rf.pos]
        ELSE IF rc.err \/ rc.buf # <<0>> THEN [kind |-> "panic", body |-> <<>>, pos |-> rc.pos]
        ELSE IF rm.err THEN [kind |-> "panic", body |-> <<>>, pos |-> rm.pos]
        ELSE IF rb.err THEN [kind |-> "panic", body |-> <<>>, pos |-> rb.pos]
        ELSE [kind |-> "Some", body |-> rb.buf, pos |-> rb.pos]

\* mutant: the block is returned with the stream left where it was
read_block_rewind(p) ==
    LET rl == Read(p, Zeros(4))
        bodylen == U32FromLeBytes(rl.buf)
        rf == Read(rl.pos, Zeros(2))
        rc == Read(rf.pos, Zeros(1))
        rm == Read(rc.pos, Zeros(1))
        rb == Read(rm.pos, Zeros(bodylen))
    IN  IF rl.err THEN [kind |-> "Err", body |-> <<>>, pos |-> rl.pos]
        ELSE IF bodylen = 0 THEN [kind |-> "None", body |-> <<>>, pos |-> rl.pos]
        ELSE IF rf.err \/ rf.buf # <<0, 0>> THEN [kind |-> "panic", body |-> <<>>, pos |-> rf.pos]
        ELSE IF rc.err \/ rc.buf # <<0>> THEN [kind |-> "panic", body |-> <<>>, pos |-> rc.pos]
        ELSE IF rm.err \/ rm.buf # <<0>> THEN [kind |-> "panic", body |-> <<>>, pos |-> rm.pos]
        ELSE IF rb.err THEN [kind |-> "panic", body |-> <<>>, pos |-> rb.pos]
        ELSE [kind |-> "Some", body |-> rb.buf, pos |-> p]

read_block(p) ==
    LET rl == Read(p, Zeros(4))
        bodylen == U32FromLeBytes(rl.buf)
        rf == Read(rl.pos, Zeros(2))
        rc == Read(rf.pos, Zeros(1))
        rm == Read(rc.pos, Zeros(1))
        rb == Read(rm.pos, Zeros(bodylen))
    IN  IF rl.err THEN [kind |-> "Err", body |-> <<>>, pos |-> rl.pos]
        ELSE IF bodylen = 0 THEN [kind |-> "None", body |-> <<>>, pos |-> rl.pos]
        ELSE IF rf.err \/ rf.buf # <<0, 0>> THEN [kind |-> "panic", body |-> <<>>, pos |-> rf.pos]
        ELSE IF rc.err \/ rc.buf # <<0>> THEN [kind |-> "panic", body |-> <<>>, pos |-> rc.pos]
        ELSE IF rm.err \/ rm.buf # <<0>> THEN [kind |-> "panic", body |-> <<>>, pos |-> rm.pos]
        ELSE IF rb.err THEN [kind |-> "panic", body |-> <<>>, pos |-> rb.pos]
        ELSE [kind |-> "Some", body |-> rb.buf, pos |-> rb.pos]

(***************************************************************************)
(* Value::from_bytes.  A 64-bit pattern is kept as four 16-bit limbs,      *)
(* least significant first (TLC integers are 32 bits wide).                *)
(***************************************************************************)
STRING_T == "STRING"
INT_T == "INT"
DOUBLE_T == "DOUBLE"

Limbs(sf) == [i \in 1..4 |-> sf[2 * i - 1] + 256 * sf[2 * i]]

\* two's-complement negation of a 4-limb pattern: invert, add one with carry
NegLimbs(l) ==
    LET inv == [i \in 1..4 |-> 65535 - l[i]]
        c1 == inv[1] + 1
        c2 == inv[2] + (c1 \div 65536)
        c3 == inv[3] + (c2 \div 65536)
        c4 == inv[4] + (c3 \div 65536)
    IN  <<c1 % 65536, c2 % 65536, c3 % 65536, c4 % 65536>>

\* mutant: the 8 bytes are taken most significant first (from_be_bytes)
I64FromBeBytes(sf) ==
    LET l == Limbs([i \in 1..8 |-> sf[9 - i]])
    IN  IF l[4] >= 32768
        THEN [neg |-> TRUE, mag |-> NegLimbs(l)]
        ELSE [neg |-> FALSE, mag |-> l]

\* i64::from_le_bytes: sign and magnitude of the two's-complement pattern
I64FromLeBytes(sf) ==
    LET l == Limbs(sf)
    IN  IF l[4] >= 32768
        THEN [neg |-> TRUE, mag |-> NegLimbs(l)]
        ELSE [neg |-> FALSE, mag |-> l]

\* f64::from_le_bytes: sign bit, 11-bit exponent, 52-bit fraction (limbs)
F64FromLeBytes(sf) ==
    [sign |-> sf[8] \div 128,
     exponent |-> (sf[8] % 128) * 16 + (sf[7] \div 16),
     fraction |-> <<sf[1] + 256 * sf[2], sf[3] + 256 * sf[4],
                    sf[5] + 256 * sf[6], sf[7] % 16>>]

\* String::from_utf8_lossy on byte strings without multi-byte lead bytes:
\* an ASCII byte is its own character, any other byte is invalid on its
\* own and becomes U+FFFD.
Utf8Lossy(src) == [i \in 1..Len(src) |-> IF src[i] < 128 THEN src[i] ELSE 65533]

\* mutant: a short buffer is zero-extended instead of rejected
from_bytes_padded(src, field_type) ==
    LET sf == [i \in 1..8 |-> IF i <= Len(src) THEN src[i] ELSE 0]
    IN  IF field_type = STRING_T
        THEN [ok |-> TRUE, value |-> [kind |-> "String", v |-> Utf8Lossy(src)]]
        ELSE IF field_type = INT_T
        THEN [ok |-> TRUE, value |-> [kind |-> "Integer", v |-> I64FromLeBytes(sf)]]
        ELSE [ok |-> TRUE, value |-> [kind |-> "Float", v |-> F64FromLeBytes(sf)]]

\* &src[0..8] panics when src is shorter than 8 bytes
from_bytes(src, field_type) ==
    IF field_type = STRING_T
    THEN [ok |-> TRUE, value |-> [kind |-> "String", v |-> Utf8Lossy(src)]]
    ELSE IF Len(src) < 8
    THEN [ok |-> FALSE, value |-> [kind |-> "panic", v |-> <<>>]]
    ELSE IF field_type = INT_T
    THEN [ok |-> TRUE, value |-> [kind |-> "Integer", v |-> I64FromLeBytes(SubBytes(src, 0, 8))]]
    ELSE [ok |-> TRUE, value |-> [kind |-> "Float", v |-> F64FromLeBytes(SubBytes(src, 0, 8))]]

(***************************************************************************)
(* The message decoder (fileformat::Body::parse_from_bytes) and the        *)
(* geometry decoder (read_wkb) are collaborators outside lib.rs.  They are *)
(* modelled by their contract: bytes in, records out, or a failure.        *)
(* A body is a sequence of fields: a META field (one byte, no feature), or *)
(* a FEAT field followed by one byte naming the feature record it carries. *)
(***************************************************************************)
META == 1

FEAT == 2

Bytes8(x) == <<x, 0, 0, 0, 0, 0, 0, 0>>

Tag(k, v, t) == [key |-> k, value |-> v, field_type |-> t]

\* the feature records a FEAT field can carry, by its record byte
Records ==
    [d \in 0..6 |->
        CASE d = 0 -> [geom |-> <<1>>, tags |-> <<>>]
          [] d = 1 -> [geom |-> <<1, 1>>, tags |-> <<Tag("name", <<65, 255>>, STRING_T)>>]
          [] d = 2 -> [geom |-> <<1, 2>>,
                       tags |-> <<Tag("id", Bytes8(42), INT_T), Tag("w", Bytes8(7), DOUBLE_T),
                                  Tag("id", Bytes8(43), INT_T)>>]
          [] d = 3 -> [geom |-> <<9>>, tags |-> <<>>]
          [] d = 4 -> [geom |-> <<1, 4>>, tags |-> <<Tag("id", <<1, 2, 3>>, INT_T)>>]
          [] d = 5 -> [geom |-> <<1, 5>>, tags |-> <<Tag("id", Bytes8(255) \o <<9>>, INT_T)>>]
          [] d = 6 -> [geom |-> <<0, 6>>, tags |-> <<Tag("w", <<1, 2>>, DOUBLE_T)>>]]

RECURSIVE ParseFrom(_, _)
ParseFrom(v, i) ==
    IF i > Len(v) THEN [ok |-> TRUE, feature |-> <<>>]
    ELSE IF v[i] = META THEN ParseFrom(v, i + 1)
    ELSE IF v[i] = FEAT /\ i + 1 <= Len(v) /\ v[i + 1] \in DOMAIN Records
    THEN LET rest == ParseFrom(v, i + 2)
         IN  [ok |-> rest.ok, feature |-> <<Records[v[i + 1]]>> \o rest.feature]
    ELSE [ok |-> FALSE, feature |-> <<>>]

\* fileformat::Body::parse_from_bytes
parse_from_bytes(v) == ParseFrom(v, 1)

\* read_wkb: the first byte of well-known binary is the byte order, 0 or 1
read_wkb(geom) ==
    IF geom # <<>> /\ geom[1] \in {0, 1}
    THEN [ok |-> TRUE, geometry |-> [wkb |-> geom]]
    ELSE [ok |-> FALSE, geometry |-> [wkb |-> <<>>]]

(***************************************************************************)
(* read_body.                                                              *)
(***************************************************************************)
\* mutant: an existing key keeps its value (entry().or_insert)
InsertIfAbsent(m, k, val) ==
    [x \in DOMAIN m \cup {k} |-> IF x \in DOMAIN m THEN m[x] ELSE val]

\* HashMap::insert: a later insert of the same key replaces the value
Insert(m, k, val) == [x \in DOMAIN m \cup {k} |-> IF x = k THEN val ELSE m[x]]

EmptyMap == [x \in {} |-> 0]

\* the inner loop over ft.tags, from the i-th tag on
RECURSIVE InsertTags(_, _, _)
InsertTags(tags, i, m) ==
    IF i > Len(tags) THEN [ok |-> TRUE, tags |-> m]
    ELSE LET val == from_bytes(tags[i].value, tags[i].field_type)
         IN  IF ~val.ok THEN [ok |-> FALSE, tags |-> m]
             ELSE InsertTags(tags, i + 1, Insert(m, tags[i].key, val.value))

\* one iteration of the outer loop: a Feature, or a panic
MakeFeature(ft) ==
    LET g == read_wkb(ft.geom)
        t == InsertTags(ft.tags, 1, EmptyMap)
    IN  [ok |-> g.ok /\ t.ok, ft |-> [geometry |-> g.geometry, tags |-> t.tags]]

\* mutant: each feature is put in front of the ones built before it
RECURSIVE PushFeaturesFront(_, _, _)
PushFeaturesFront(recs, i, features) ==
    IF i > Len(recs) THEN [ok |-> TRUE, features |-> features]
    ELSE LET f == MakeFeature(recs[i])
         IN  IF ~f.ok THEN [ok |-> FALSE, features |-> <<>>]
             ELSE PushFeaturesFront(recs, i + 1, <<f.ft>> \o features)

RECURSIVE PushFeatures(_, _, _)
PushFeatures(recs, i, features) ==
    IF i > Len(recs) THEN [ok |-> TRUE, features |-> features]
    ELSE LET f == MakeFeature(recs[i])
         IN  IF ~f.ok THEN [ok |-> FALSE, features |-> <<>>]
             ELSE PushFeatures(recs, i + 1, Append(features, f.ft))

read_body(v) ==
    LET body == parse_from_bytes(v)
    IN  IF ~body.ok THEN [ok |-> FALSE, features |-> <<>>]
        ELSE PushFeatures(body.feature, 1, <<>>)

(***************************************************************************)
(* FeatureIterator::next on queue q with the stream at position p.         *)
(* kind is "Some" (item returned), "None" or "panic".                      *)
(***************************************************************************)
NoItem == <<>>

\* mutant: takes the last element of the queue (pop) instead of the first
RemoveLast(q, p) ==
    IF q = <<>>
    THEN [kind |-> "panic", item |-> NoItem, queue |-> q, pos |-> p]
    ELSE [kind |-> "Some", item |-> q[Len(q)], queue |-> SubSeq(q, 1, Len(q) - 1), pos |-> p]

\* Some(self.queue.remove(0)): index out of bounds on an empty queue
RemoveFirst(q, p) ==
    IF q = <<>>
    THEN [kind |-> "panic", item |-> NoItem, queue |-> q, pos |-> p]
    ELSE [kind |-> "Some", item |-> Head(q), queue |-> Tail(q), pos |-> p]

\* mutant: the next block is fetched ahead, while one feature is still queued
next_prefetch(q, p) ==
    IF Len(q) <= 1
    THEN LET x == read_block(p)
             fts == read_body(x.body)
         IN  IF x.kind = "Err" \/ x.kind = "panic"
             THEN [kind |-> "panic", item |-> NoItem, queue |-> q, pos |-> x.pos]
             ELSE IF x.kind = "None"
             THEN IF q = <<>>
                  THEN [kind |-> "None", item |-> NoItem, queue |-> q, pos |-> x.pos]
                  ELSE RemoveFirst(q, x.pos)
             ELSE IF ~fts.ok
             THEN [kind |-> "panic", item |-> NoItem, queue |-> q, pos |-> x.pos]
             ELSE RemoveFirst(q \o fts.features, x.pos)
    ELSE RemoveFirst(q, p)

next(q, p) ==
    IF Len(q) = 0
    THEN LET x == read_block(p)
             fts == read_body(x.body)
         IN  IF x.kind = "Err" \/ x.kind = "panic"
             THEN [kind |-> "panic", item |-> NoItem, queue |-> q, pos |-> x.pos]
             ELSE IF x.kind = "None"
             THEN [kind |-> "None", item |-> NoItem, queue |-> q, pos |-> x.pos]
             ELSE IF ~fts.ok
             THEN [kind |-> "panic", item |-> NoItem, queue |-> q, pos |-> x.pos]
             ELSE RemoveFirst(fts.features, x.pos)
    ELSE RemoveFirst(q, p)

(***************************************************************************)
(* Streams: FileHeader Block* Terminator, and malformed variants of each   *)
(* part.                                                                   *)
(***************************************************************************)
LE32(n) == <<n % 256, (n \div 256) % 256, (n \div 65536) % 256, n \div 16777216>>

\* bodylen(u32 LE) flags(2) compression(1) messageType(1) body
BlockBytes(flags, comp, mt, body) == LE32(Len(body)) \o flags \o <<comp>> \o <<mt>> \o body

GoodBlock(body) == BlockBytes(<<0, 0>>, 0, 0, body)

Terminator == LE32(0)

GoodHeader == MAGIC \o VERSION

\* bodies the message and geometry decoders accept, by feature count
NonEmptyBodies ==
    {<<FEAT, 1>>, <<FEAT, 2, FEAT, 0>>, <<META, FEAT, 5>>, <<FEAT, 5, FEAT, 1, FEAT, 2>>}

EmptyBodies == {<<META>>}

\* bodies on which read_body fails: unknown field, truncated FEAT field,
\* invalid geometry, short INT buffer, short DOUBLE buffer
BadBodies == {<<3>>, <<FEAT, 1, FEAT>>, <<FEAT, 3>>, <<FEAT, 4>>, <<FEAT, 6>>}

\* blocks whose header is rejected
BadHeaderBlocks ==
    {BlockBytes(<<0, 1>>, 0, 0, <<FEAT, 1>>), BlockBytes(<<1, 0>>, 0, 0, <<FEAT, 1>>),
     BlockBytes(<<0, 0>>, 1, 0, <<FEAT, 1>>), BlockBytes(<<0, 0>>, 0, 1, <<FEAT, 1>>)}

Blocks ==
    {GoodBlock(b) : b \in NonEmptyBodies \cup EmptyBodies \cup BadBodies} \cup BadHeaderBlocks

BlockSeqs == UNION {[1..n -> Blocks] : n \in 0..MaxBlocks}

\* what follows the last block: the terminator, nothing, a cut length field,
\* a cut block header, a cut body, or bytes after the terminator
Tails ==
    {Terminator, <<>>, <<0, 0>>, <<2>>,
     LE32(2) \o <<0>>, LE32(2) \o <<0, 0, 0, 0>> \o <<FEAT>>,
     Terminator \o GoodBlock(<<FEAT, 1>>) \o Terminator,
     Terminator \o Terminator, Terminator \o <<7>>}

BadHeaders ==
    {<<>>, <<83, 80, 65>>, MAGIC, MAGIC \o <<0, 0>>, MAGIC \o <<0, 0, 0>>,
     MAGIC \o <<0, 0, 0, 1>>, <<83, 80, 65, 88>> \o VERSION, <<0, 0, 0, 0>> \o VERSION,
     <<83, 80, 65, 84, 83, 80, 65, 84>>}

\* positions at which a read call may report an I/O error
ErrPositions == {0, 4, 8, 12, 14, 15, 16}

Inputs ==
    {[bytes |-> GoodHeader \o Concat(bs) \o t, errAt |-> NoErr] : bs \in BlockSeqs, t \in Tails}
    \cup {[bytes |-> GoodHeader \o Concat(bs) \o Terminator, errAt |-> e] :
             bs \in BlockSeqs, e \in ErrPositions}
    \cup {[bytes |-> h \o t, errAt |-> NoErr] :
             h \in BadHeaders, t \in {<<>>, GoodBlock(<<FEAT, 1>>) \o Terminator}}

(***************************************************************************)
(* State machine.  pc: "start" (stream opened), "iter" (FeatureIterator    *)
(* constructed), "manual" (header read by the caller, who drives           *)
(* read_block / read_body as the tests do), "done", "failed" (panicked).   *)
(* ret records the last call: its name, outcome, the stream position at    *)
(* entry and the value returned.  yielded is what the consumer received.   *)
(***************************************************************************)
NoBlock == <<>>

Ret(op, kind, from, val) == [op |-> op, kind |-> kind, from |-> from, val |-> val]

Init ==
    /\ \E in \in Inputs : stream = in.bytes /\ errAt = in.errAt
    /\ pos = 0
    /\ pc = "start"
    /\ queue = <<>>
    /\ yielded = <<>>
    /\ block = NoBlock
    /\ ret = Ret("open", "ok", 0, <<>>)

\* mutant: the constructor also fetches the first block into the queue
FeatureIterator_new_eager ==
    /\ pc = "start"
    /\ LET h == read_file_header(pos)
           x == read_block(h.pos)
           fts == read_body(x.body)
           filled == h.ok /\ x.kind = "Some" /\ fts.ok
       IN  /\ pos' = IF filled THEN x.pos ELSE h.pos
           /\ queue' = IF filled THEN fts.features ELSE <<>>
           /\ pc' = IF h.ok THEN "iter" ELSE "failed"
           /\ ret' = Ret("new", IF h.ok THEN "ok" ELSE "panic", pos, <<>>)
    /\ UNCHANGED <<stream, errAt, yielded, block>>

\* FeatureIterator::new
FeatureIterator_new ==
    /\ pc = "start"
    /\ LET h == read_file_header(pos)
       IN  /\ pos' = h.pos
           /\ pc' = IF h.ok THEN "iter" ELSE "failed"
           /\ ret' = Ret("new", IF h.ok THEN "ok" ELSE "panic", pos, <<>>)
    /\ queue' = <<>>
    /\ UNCHANGED <<stream, errAt, yielded, block>>

\* a pull: Iterator::next
FeatureIterator_next ==
    /\ pc = "iter"
    /\ LET n == next(queue, pos)
       IN  /\ pos' = n.pos
           /\ queue' = n.queue
           /\ pc' = IF n.kind = "panic" THEN "failed" ELSE "iter"
           /\ yielded' = IF n.kind = "Some" THEN Append(yielded, n.item) ELSE yielded
           /\ ret' = Ret("next", n.kind, pos, n.item)
    /\ UNCHANGED <<stream, errAt, block>>

\* the caller reads the header itself (tests::file_header_test, file_read_test)
ReadFileHeader ==
    /\ pc = "start"
    /\ LET h == read_file_header(pos)
       IN  /\ pos' = h.pos
           /\ pc' = IF h.ok THEN "manual" ELSE "failed"
           /\ ret' = Ret("read_file_header", IF h.ok THEN "ok" ELSE "panic", pos, <<>>)
    /\ UNCHANGED <<stream, errAt, queue, yielded, block>>

\* the caller's loop: read_block, Err => panic, None => return
ReadBlock ==
    /\ pc = "manual"
    /\ block = NoBlock
    /\ LET x == read_block(pos)
       IN  /\ pos' = x.pos
           /\ block' = x.body
           /\ pc' = CASE x.kind = "Some" -> "manual"
                      [] x.kind = "None" -> "done"
                      [] OTHER -> "failed"
           /\ ret' = Ret("read_block", x.kind, pos, x.body)
    /\ UNCHANGED <<stream, errAt, queue, yielded>>

\* the caller's loop: read_body on the block just read
ReadBody ==
    /\ pc = "manual"
    /\ block # NoBlock
    /\ LET fts == read_body(block)
       IN  /\ pc' = IF fts.ok THEN "manual" ELSE "failed"
           /\ yielded' = yielded \o fts.features
           /\ ret' = Ret("read_body", IF fts.ok THEN "ok" ELSE "panic", pos, fts.features)
    /\ block' = NoBlock
    /\ UNCHANGED <<stream, errAt, pos, queue>>

Next ==
    \/ FeatureIterator_new
    \/ FeatureIterator_next
    \/ ReadFileHeader
    \/ ReadBlock
    \/ ReadBody

Spec == Init /\ [][Next]_vars

(***************************************************************************)
(* The container grammar, read off the bytes independently of the reader:  *)
(*   Stream := FileHeader Block* Terminator                                *)
(* Used to state what a stream holds.                                      *)
(***************************************************************************)
Has(s, p, n) == p + n <= Len(s)

\* the frames from position p on: ok when Block* Terminator parses, with the
\* bodies in order and the position after the terminator
RECURSIVE FramesFrom(_, _)
FramesFrom(s, p) ==
    IF ~Has(s, p, 4) THEN [ok |-> FALSE, bodies |-> <<>>, end |-> p]
    ELSE LET n == s[p + 1] + 256 * s[p + 2] + 65536 * s[p + 3] + 16777216 * s[p + 4]
         IN  IF n = 0 THEN [ok |-> TRUE, bodies |-> <<>>, end |-> p + 4]
             ELSE IF ~Has(s, p, 8 + n) \/ SubBytes(s, p + 4, 4) # <<0, 0, 0, 0>>
             THEN [ok |-> FALSE, bodies |-> <<>>, end |-> p]
             ELSE LET r == FramesFrom(s, p + 8 + n)
                  IN  [ok |-> r.ok, bodies |-> <<SubBytes(s, p + 8, n)>> \o r.bodies,
                       end |-> r.end]

HeaderOk(s) == Has(s, 0, 8) /\ SubBytes(s, 0, 8) = <<83, 80, 65, 84, 0, 0, 0, 0>>

WellFormed(s) == HeaderOk(s) /\ FramesFrom(s, 8).ok /\ FramesFrom(s, 8).end = Len(s)

\* the feature records of a body, and whether all of them translate
RecordsOf(b) == parse_from_bytes(b).feature

BodyOk(b) ==
    /\ parse_from_bytes(b).ok
    /\ \A i \in 1..Len(RecordsOf(b)) : MakeFeature(RecordsOf(b)[i]).ok

FeaturesOf(b) == [i \in 1..Len(RecordsOf(b)) |-> MakeFeature(RecordsOf(b)[i]).ft]

\* every feature of every block, in block order and record order
Expected(s) ==
    LET bodies == FramesFrom(s, 8).bodies
    IN  Concat([i \in 1..Len(bodies) |-> FeaturesOf(bodies[i])])

IsPrefix(a, b) == Len(a) <= Len(b) /\ \A i \in 1..Len(a) : a[i] = b[i]

\* well-formed, every block decodable and holding at least one record
FullStream(s) ==
    /\ WellFormed(s)
    /\ \A i \in 1..Len(FramesFrom(s, 8).bodies) :
          /\ BodyOk(FramesFrom(s, 8).bodies[i])
          /\ Len(RecordsOf(FramesFrom(s, 8).bodies[i])) >= 1

\* C1: over a well-formed stream whose blocks all hold at least one feature
\* record, the pulls of a FeatureIterator never fail, yield the features of
\* all blocks in block order and record order (what was yielded is always a
\* prefix of that sequence and each pull returns its next element), and a
\* pull signals exhaustion only when all of them have been yielded; a pull
\* made after the last feature can then only signal exhaustion.
C1_YieldsAllInOrder ==
    (FullStream(stream) /\ errAt = NoErr /\ ret.op \in {"new", "next"}) =>
        /\ pc = "iter"
        /\ IsPrefix(yielded, Expected(stream))
        /\ (ret.op = "next" /\ ret.kind = "Some" =>
               ret.val = Expected(stream)[Len(yielded)])
        /\ (ret.op = "next" /\ ret.kind = "None" => yielded = Expected(stream))

C1_Witness ==
    /\ FullStream(stream) /\ errAt = NoErr
    /\ Len(FramesFrom(stream, 8).bodies) = 2
    /\ Len(Expected(stream)) >= 3
    /\ ret.op = "next" /\ ret.kind = "None"
    /\ yielded = Expected(stream)

\* a complete block with zero header fields at p whose body translates to
\* zero features
EmptyBlockAt(s, p) ==
    /\ Has(s, p, 8)
    /\ SubBytes(s, p, 4) # <<0, 0, 0, 0>>
    /\ SubBytes(s, p + 4, 4) = <<0, 0, 0, 0>>
    /\ LET n == s[p + 1] + 256 * s[p + 2] + 65536 * s[p + 3] + 16777216 * s[p + 4]
       IN  Has(s, p, 8 + n) /\ BodyOk(SubBytes(s, p + 8, n))
                            /\ RecordsOf(SubBytes(s, p + 8, n)) = <<>>

\* the outcome the design gives a pull that starts reading at p: empty
\* blocks are passed over, the first feature of the next non-empty block is
\* returned, the terminator ends the stream
RECURSIVE DesignPull(_, _)
DesignPull(s, p) ==
    IF ~Has(s, p, 4) THEN [kind |-> "fail", item |-> NoItem]
    ELSE IF SubBytes(s, p, 4) = <<0, 0, 0, 0>> THEN [kind |-> "None", item |-> NoItem]
    ELSE LET n == s[p + 1] + 256 * s[p + 2] + 65536 * s[p + 3] + 16777216 * s[p + 4]
         IN  IF ~Has(s, p, 8 + n) \/ SubBytes(s, p + 4, 4) # <<0, 0, 0, 0>>
                \/ ~BodyOk(SubBytes(s, p + 8, n))
             THEN [kind |-> "fail", item |-> NoItem]
             ELSE IF RecordsOf(SubBytes(s, p + 8, n)) = <<>>
             THEN DesignPull(s, p + 8 + n)
             ELSE [kind |-> "Some", item |-> FeaturesOf(SubBytes(s, p + 8, n))[1]]

\* C2: a pull that reads a block translating to zero features neither
\* fails nor signals exhaustion because of it: it returns the first feature
\* of the next non-empty block, or signals exhaustion when the terminator
\* is reached.
C2_EmptyBlockPassedOver ==
    (/\ ret.op = "next" /\ pos # ret.from /\ errAt = NoErr
     /\ EmptyBlockAt(stream, ret.from)
     /\ DesignPull(stream, ret.from).kind \in {"Some", "None"}) =>
        /\ ret.kind = DesignPull(stream, ret.from).kind
        /\ (ret.kind = "Some" => ret.val = DesignPull(stream, ret.from).item)

\* C3: exhaustion is sticky: the pull that follows a pull that signalled
\* "no value" signals "no value" too and leaves the stream position as it
\* was, whatever follows the terminator.
C3_ExhaustionSticky ==
    [][(ret.op = "next" /\ ret.kind = "None" /\ FeatureIterator_next) =>
          (ret'.kind = "None" /\ pos' = pos)]_vars

\* C4: read_file_header (called directly or by FeatureIterator::new on a
\* reader that reports no error) returns normally if and only if the
\* stream has at least 8 bytes and the first 8 are "SPAT" and 4 zero bytes;
\* otherwise it fails, in particular on every stream shorter than 8 bytes.
\* An accepted header is consumed whole.
C4_HeaderAcceptedIff ==
    (ret.op \in {"read_file_header", "new"} /\ errAt \notin {0, 4}) =>
        /\ (ret.kind = "ok") <=>
              (Len(stream) >= 8 /\ SubBytes(stream, 0, 8) = <<83, 80, 65, 84, 0, 0, 0, 0>>)
        /\ ret.kind \in {"ok", "panic"}
        /\ (ret.kind = "ok" => pos = 8)
        /\ (ret.kind = "panic") <=> (pc = "failed")

\* "SPAT" and three zero bytes: one byte short, rejected
C4_Witness ==
    /\ ret.op = "read_file_header" /\ ret.kind = "panic"
    /\ stream = <<83, 80, 65, 84, 0, 0, 0>>
    /\ errAt = NoErr

\* the body length announced at p
LenAt(s, p) == s[p + 1] + 256 * s[p + 2] + 65536 * s[p + 3] + 16777216 * s[p + 4]

\* C5: when the next 4 bytes are zero, read_block returns "no more blocks"
\* and has consumed exactly those 4 bytes, whatever follows them.
C5_SentinelConsumesFour ==
    (/\ ret.op = "read_block" /\ errAt # ret.from
     /\ Has(stream, ret.from, 4) /\ SubBytes(stream, ret.from, 4) = <<0, 0, 0, 0>>) =>
        /\ ret.kind = "None"
        /\ ret.val = <<>>
        /\ pos = ret.from + 4

\* the terminator is followed by more bytes, none of which was read
C5_Witness ==
    /\ ret.op = "read_block" /\ ret.kind = "None"
    /\ pos = ret.from + 4
    /\ Len(stream) >= pos + 8

\* C6: for a block header with body length N > 0 and zero flag,
\* compression and message-type bytes, read_block returns exactly the next
\* N bytes and advances by 8 + N when N body bytes are available, and fails
\* without a payload when fewer are available.
C6_BodyExactOrFail ==
    (/\ ret.op = "read_block" /\ errAt = NoErr
     /\ Has(stream, ret.from, 8) /\ LenAt(stream, ret.from) > 0
     /\ SubBytes(stream, ret.from + 4, 4) = <<0, 0, 0, 0>>) =>
        IF Has(stream, ret.from, 8 + LenAt(stream, ret.from))
        THEN /\ ret.kind = "Some"
             /\ ret.val = SubBytes(stream, ret.from + 8, LenAt(stream, ret.from))
             /\ pos = ret.from + 8 + LenAt(stream, ret.from)
        ELSE /\ ret.kind \in {"Err", "panic"}
             /\ ret.val = <<>>

\* C7: a stream that ends before a complete 4-byte body length makes
\* read_block fail; it is never reported as "no more blocks" (nor as a
\* block).
C7_ShortLengthFails ==
    (ret.op = "read_block" /\ ~Has(stream, ret.from, 4)) => ret.kind \in {"Err", "panic"}

\* C8: for a block header with non-zero body length, read_block fails and
\* returns no payload whenever a flag byte, the compression byte or the
\* message-type byte is non-zero.
C8_NonZeroHeaderFieldFails ==
    (/\ ret.op = "read_block" /\ errAt = NoErr
     /\ Has(stream, ret.from, 8) /\ LenAt(stream, ret.from) > 0
     /\ \/ SubBytes(stream, ret.from + 4, 2) # <<0, 0>>
        \/ stream[ret.from + 7] # 0
        \/ stream[ret.from + 8] # 0) =>
        /\ ret.kind = "panic"
        /\ ret.val = <<>>
        /\ block = NoBlock
        /\ pc = "failed"

\* the message-type byte alone is non-zero
C8_Witness ==
    /\ ret.op = "read_block" /\ ret.kind = "panic" /\ errAt = NoErr
    /\ Has(stream, ret.from, 8) /\ LenAt(stream, ret.from) > 0
    /\ SubBytes(stream, ret.from + 4, 3) = <<0, 0, 0>>
    /\ stream[ret.from + 8] # 0

\* a block at p that is not a complete, decodable block: a non-zero header
\* field, fewer body bytes than announced, or a body read_body cannot
\* translate
MalformedBlockAt(s, p) ==
    /\ Has(s, p, 4)
    /\ LenAt(s, p) > 0
    /\ \/ ~Has(s, p, 8 + LenAt(s, p))
       \/ SubBytes(s, p + 4, 4) # <<0, 0, 0, 0>>
       \/ ~BodyOk(SubBytes(s, p + 8, LenAt(s, p)))

\* C9: a pull that has to read a block and meets a malformed one fails: it
\* returns no feature and the iterator yields nothing afterwards.
C9_MalformedBlockFatal ==
    [][(FeatureIterator_next /\ queue = <<>> /\ MalformedBlockAt(stream, pos)) =>
          (ret'.kind = "panic" /\ pc' = "failed" /\ yielded' = yielded)]_vars

(***************************************************************************)
(* Value::from_bytes on its own: every buffer up to MaxBufLen bytes over   *)
(* BufBytes, with every value type.                                        *)
(***************************************************************************)
MaxBufLen == 9

BufBytes == {1, 255}

Buffers == UNION {[1..n -> BufBytes] : n \in 0..MaxBufLen}

InitValue ==
    /\ stream = <<>>
    /\ errAt = NoErr
    /\ pos = 0
    /\ pc = "value"
    /\ queue = <<>>
    /\ yielded = <<>>
    /\ block = NoBlock
    /\ ret = Ret("open", "ok", 0, <<>>)

FromBytes ==
    /\ pc = "value"
    /\ \E src \in Buffers, t \in {STRING_T, INT_T, DOUBLE_T} :
          LET r == from_bytes(src, t)
          IN  ret' = Ret("from_bytes", IF r.ok THEN "ok" ELSE "panic", 0,
                         [src |-> src, field_type |-> t, value |-> r.value])
    /\ pc' = "done"
    /\ UNCHANGED <<stream, errAt, pos, queue, yielded, block>>

NextValue == FromBytes

SpecValue == InitValue /\ [][NextValue]_vars

LimbValues == {0, 1, 255, 256, 32767, 32768, 65535}

TopLimbValues == {0, 1, 255, 32767}

I64Min == [neg |-> TRUE, mag |-> <<0, 0, 0, 32768>>]

I64Max == [neg |-> FALSE, mag |-> <<65535, 65535, 65535, 32767>>]

I64Zero == [neg |-> FALSE, mag |-> <<0, 0, 0, 0>>]

I64Values ==
    {[neg |-> FALSE, mag |-> <<a, b, c, d>>] :
        a \in LimbValues, b \in LimbValues, c \in {0, 65535}, d \in TopLimbValues}
    \cup ({[neg |-> TRUE, mag |-> <<a, b, c, d>>] :
              a \in LimbValues, b \in LimbValues, c \in {0, 65535}, d \in TopLimbValues}
          \ {[neg |-> TRUE, mag |-> <<0, 0, 0, 0>>]})
    \cup {I64Min, I64Max, I64Zero}

\* 2^64 - m in limbs, by subtraction with borrow (m is 1 .. 2^63)
TwoComplement(m) ==
    LET d1 == (65536 - m[1]) % 65536
        b1 == IF m[1] > 0 THEN 1 ELSE 0
        d2 == (65536 - m[2] - b1) % 65536
        b2 == IF m[2] + b1 > 0 THEN 1 ELSE 0
        d3 == (65536 - m[3] - b2) % 65536
        b3 == IF m[3] + b2 > 0 THEN 1 ELSE 0
        d4 == (65536 - m[4] - b3) % 65536
    IN  <<d1, d2, d3, d4>>

\* i64::to_le_bytes: the two's-complement pattern, least significant byte first
I64ToLeBytes(v) ==
    LET l == IF v.neg THEN TwoComplement(v.mag) ELSE v.mag
    IN  [i \in 1..8 |-> IF i % 2 = 1 THEN l[(i + 1) \div 2] % 256 ELSE l[i \div 2] \div 256]

\* Value::from_bytes applied to the encoding of an integer
FromBytesEncoded ==
    /\ pc = "value"
    /\ \E v \in I64Values :
          LET r == from_bytes(I64ToLeBytes(v), INT_T)
          IN  ret' = Ret("from_bytes_encoded", IF r.ok THEN "ok" ELSE "panic", 0,
                         [src |-> I64ToLeBytes(v), field_type |-> INT_T,
                          value |-> r.value, encoded |-> v])
    /\ pc' = "done"
    /\ UNCHANGED <<stream, errAt, pos, queue, yielded, block>>

NextInt == FromBytesEncoded

SpecInt == InitValue /\ [][NextInt]_vars

\* C11: integer round trip: decoding the 8 little-endian two's-complement
\* bytes of a signed 64-bit integer v with type INT yields Value::Integer(v),
\* the minimum, 0 and the maximum included.
C11_IntegerRoundTrip ==
    (ret.op = "from_bytes_encoded") =>
        /\ ret.kind = "ok"
        /\ Len(ret.val.src) = 8
        /\ ret.val.value.kind = "Integer"
        /\ ret.val.value.v = ret.val.encoded

\* the minimum, -2^63, encoded as 00 00 00 00 00 00 00 80, came back
C11_Witness ==
    /\ ret.op = "from_bytes_encoded" /\ ret.kind = "ok"
    /\ ret.val.encoded = I64Min
    /\ ret.val.src = <<0, 0, 0, 0, 0, 0, 0, 128>>
    /\ ret.val.value.v = I64Min

\* C12: a pull on a non-empty queue returns the front element, removes
\* exactly that element and keeps the others in order, and does not read
\* from the stream.
C12_PullFromQueue ==
    [][(FeatureIterator_next /\ queue # <<>>) =>
          /\ ret'.kind = "Some"
          /\ ret'.val = queue[1]
          /\ Len(queue') = Len(queue) - 1
          /\ \A i \in 1..Len(queue') : queue'[i] = queue[i + 1]
          /\ yielded' = yielded \o <<queue[1]>>
          /\ pos' = pos
          /\ pc' = "iter"]_vars

\* a pull served from a queue of two: the other feature stays queued
C12_Witness ==
    /\ ret.op = "next" /\ ret.kind = "Some"
    /\ pos = ret.from
    /\ Len(queue) = 1
    /\ Len(yielded) >= 2
    /\ ret.val = yielded[Len(yielded)]

\* the body of the block that ends at position target, <<>> when no block
\* of the stream ends there
RECURSIVE BodyEndingAt(_, _, _)
BodyEndingAt(s, a, target) ==
    IF a >= target \/ ~Has(s, a, 4) THEN <<>>
    ELSE IF SubBytes(s, a, 4) = <<0, 0, 0, 0>> THEN BodyEndingAt(s, a + 4, target)
    ELSE LET n == s[a + 1] + 256 * s[a + 2] + 65536 * s[a + 3] + 16777216 * s[a + 4]
         IN  IF ~Has(s, a, 8 + n) THEN <<>>
             ELSE IF a + 8 + n = target THEN SubBytes(s, a + 8, n)
             ELSE BodyEndingAt(s, a + 8 + n, target)

\* q is what is left of f after its first Len(f) - Len(q) elements, and
\* those elements are the last ones of y
IsRestOf(q, f, y) ==
    /\ Len(q) < Len(f)
    /\ Len(y) >= Len(f) - Len(q)
    /\ \A i \in 1..Len(q) : q[i] = f[Len(f) - Len(q) + i]
    /\ \A i \in 1..(Len(f) - Len(q)) : y[Len(y) - (Len(f) - Len(q)) + i] = f[i]

\* C13: in every reachable state of a FeatureIterator the queue holds only
\* the not-yet-yielded features of the most recently read block, as a
\* suffix of that block's features (so never features of two blocks and
\* never more than one block's record count), and a pull reads from the
\* stream only when the queue is empty.
C13_QueueIsRestOfOneBlock ==
    /\ []((pc = "iter" /\ queue # <<>>) =>
             IsRestOf(queue, FeaturesOf(BodyEndingAt(stream, 8, pos)), yielded))
    /\ [][(FeatureIterator_next /\ pos' # pos) => queue = <<>>]_vars

\* two features of the second block's three are still queued
C13_Witness ==
    /\ pc = "iter" /\ Len(queue) = 2
    /\ Len(yielded) >= 2
    /\ Len(FeaturesOf(BodyEndingAt(stream, 8, pos))) = 3
    /\ IsRestOf(queue, FeaturesOf(BodyEndingAt(stream, 8, pos)), yielded)

\* C14: constructing a FeatureIterator reads the header and nothing else:
\* it starts at position 0, a successful construction has consumed exactly
\* the 8 header bytes, read no block and left the queue empty, a failed
\* one has read no more than the header; every pull starts at or after
\* position 8, so no pull reads the header again.
C14_HeaderReadOnceAtConstruction ==
    /\ (ret.op = "new" =>
           /\ ret.from = 0
           /\ queue = <<>> /\ yielded = <<>> /\ block = NoBlock
           /\ pos <= 8
           /\ (ret.kind = "ok" => pos = 8 /\ pc = "iter")
           /\ (ret.kind # "ok" => ret.kind = "panic" /\ pc = "failed"))
    /\ (pc = "iter" => pos >= 8)
    /\ (ret.op = "next" => ret.from >= 8 /\ pos >= ret.from)

\* constructed over a stream whose first block is waiting, unread, at 8
C14_Witness ==
    /\ ret.op = "new" /\ ret.kind = "ok"
    /\ pos = 8 /\ queue = <<>>
    /\ Has(stream, 8, 8) /\ SubBytes(stream, 8, 4) # <<0, 0, 0, 0>>

\* what is left to deliver: queued features plus unread bytes
Remaining == Len(queue) + (Len(stream) - pos)

\* C15: repeated pulls terminate: what is left to deliver (queued features
\* plus unread bytes) is never negative and every pull that returns a
\* feature makes it strictly smaller, so only finitely many pulls in a row
\* return a feature and the next one signals exhaustion or fails; the
\* stream position never decreases, and a pull that finds a non-zero body
\* length (reads a block) strictly advances it.
C15_PullsTerminate ==
    /\ [](Remaining >= 0 /\ pos <= Len(stream))
    /\ [](ret.op = "next" => ret.kind \in {"Some", "None", "panic"})
    /\ [][pos' >= pos]_vars
    /\ [][(FeatureIterator_next /\ ret'.kind = "Some") => Remaining' < Remaining]_vars
    /\ [][(FeatureIterator_next /\ queue = <<>> /\ errAt # pos /\ Has(stream, pos, 1)
             /\ SubBytes(stream, pos, Min(4, Len(stream) - pos))
                   # Zeros(Min(4, Len(stream) - pos))) =>
            pos' > pos]_vars

\* all features of a two-block stream were pulled, then exhaustion
C15_Witness ==
    /\ ret.op = "next" /\ ret.kind = "None"
    /\ Len(yielded) >= 4
    /\ pos = Len(stream)

\* the keys of a record's tag list, and the last tag carrying key k
KeysOf(rec) == {rec.tags[j].key : j \in 1..Len(rec.tags)}

LastTag(rec, k) ==
    rec.tags[CHOOSE j \in 1..Len(rec.tags) :
                 /\ rec.tags[j].key = k
                 /\ \A j2 \in (j + 1)..Len(rec.tags) : rec.tags[j2].key # k]

\* C16: read_body returns one Feature per feature record of the decoded
\* block, in the decoder's order: as many features as records, the i-th
\* carrying the geometry and the tag keys of the i-th record.
C16_OneFeaturePerRecordInOrder ==
    [][(ReadBody /\ ret'.kind = "ok") =>
          /\ Len(ret'.val) = Len(RecordsOf(block))
          /\ \A i \in 1..Len(ret'.val) :
                /\ ret'.val[i].geometry = [wkb |-> RecordsOf(block)[i].geom]
                /\ DOMAIN ret'.val[i].tags = KeysOf(RecordsOf(block)[i])]_vars

\* a block of three records gave three features
C16_Witness ==
    /\ ret.op = "read_body" /\ ret.kind = "ok"
    /\ Len(ret.val) = 3
    /\ Len(RecordsOf(BodyEndingAt(stream, 8, pos))) = 3

\* C17: in every Feature built by read_body the tag mapping has exactly one
\* entry per distinct key of the record's tag list, and each key maps to
\* the decoded value of the last tag in the list that carries it.
C17_LastTagWins ==
    [][(ReadBody /\ ret'.kind = "ok") =>
          \A i \in 1..Len(ret'.val) :
             /\ DOMAIN ret'.val[i].tags = KeysOf(RecordsOf(block)[i])
             /\ \A k \in KeysOf(RecordsOf(block)[i]) :
                   ret'.val[i].tags[k] =
                      from_bytes(LastTag(RecordsOf(block)[i], k).value,
                                 LastTag(RecordsOf(block)[i], k).field_type).value]_vars

\* the record with tags id=42, w, id=43 gave a feature with two keys, id 43
C17_Witness ==
    /\ ret.op = "read_body" /\ ret.kind = "ok"
    /\ \E i \in 1..Len(ret.val) :
          /\ DOMAIN ret.val[i].tags = {"id", "w"}
          /\ ret.val[i].tags["id"] =
                [kind |-> "Integer", v |-> [neg |-> FALSE, mag |-> <<43, 0, 0, 0>>]]

(***************************************************************************)
(* tests::stream_iterator as one run: construct the iterator and pull      *)
(* until a pull returns None (the for loop ends) or panics.                *)
(***************************************************************************)
RECURSIVE PullAll(_, _, _)
PullAll(q, p, acc) ==
    LET n == next(q, p)
    IN  IF n.kind = "Some" THEN PullAll(n.queue, n.pos, Append(acc, n.item))
        ELSE [outcome |-> IF n.kind = "None" THEN "done" ELSE "failed", features |-> acc]

stream_iterator ==
    LET h == read_file_header(0)
    IN  IF h.ok THEN PullAll(<<>>, h.pos, <<>>)
        ELSE [outcome |-> "failed", features |-> <<>>]

\* C18: over the same stream the iterator, pulled until exhaustion, gives
\* the same features with the same outcome (normal end or failure) as the
\* tests' manual loop of read_file_header, read_block and read_body,
\* streams with zero-feature blocks included.
C18_IteratorEqualsManualLoop ==
    (ret.op \in {"read_file_header", "read_block", "read_body"} /\ pc \in {"done", "failed"}) =>
        /\ stream_iterator.outcome = pc
        /\ stream_iterator.features = yielded

====
